---- MODULE Spec2Model ----
(***************************************************************************)
(* peep: "prudently examine every package".  A model of main() of          *)
(* peep/__init__.py and of the functions it calls.  The package manager    *)
(* (pip.main) is the delegate: each of its calls ends with a status code   *)
(* and, for a download, may leave one archive in the scratch directory.    *)
(***************************************************************************)
EXTENDS Integers, Sequences, FiniteSets, TLC

(* ----------------------------- bounds --------------------------------- *)
\* longest command line, counted without the binary name
MaxArgs == 5
\* longest requirements file, in lines
MaxLines == 2
\* the delegate's status codes are 0..MaxStatus
MaxStatus == 2

(* ------------------------- program constants -------------------------- *)
ITS_FINE_ITS_FINE == 0
SOMETHING_WENT_WRONG == 1
COMMAND_LINE_ERROR == 2

(* ------------------------------ universe ------------------------------ *)
\* requirements files that exist; any other path cannot be opened
Paths == {"f1", "f2"}
ArgTokens == {"install", "-r", "--requirement", "-q"} \cup Paths
\* package names; each is one character long, so <<n>> spells the name n
Names == {"a", "b"}
Versions == {"1", "2"}
\* the requirement declarations a file can hold, each pinning a version
ReqSpecs == {"a==1", "a==2", "b==1"}
\* pip's reading of a declaration: req.name (req.req.project_name) and the pin
project_name(spec) == IF spec \in {"a==1", "a==2"} THEN "a" ELSE "b"
pinned_version(spec) == IF spec = "a==2" THEN "2" ELSE "1"
\* the package index may spell a project's name otherwise than the declaration
IndexSpelling(n) == IF n = "a" THEN "A" ELSE "B"
\* contents an archive can have
Contents == {"c1", "c2"}
Statuses == 0..MaxStatus

SeqsUpTo(S, n) == UNION {[1..k -> S] : k \in 0..n}

\* sha256 followed by encoded_hash, an injective map of contents to text
encoded_sha256(content) == IF content = "c1" THEN "h1" ELSE "h2"

hash_of_file(dir, filename) == encoded_sha256(dir[filename])

Hashes == {encoded_sha256(c) : c \in Contents}

\* the lines of a requirements file: a trust annotation "# sha256: <val>",
\* a requirement declaration <val>, or anything else
Lines == [kind : {"sha"}, val : Hashes] \cup [kind : {"req"}, val : ReqSpecs]
            \cup [kind : {"other"}, val : {""}]
FileContents == SeqsUpTo(Lines, MaxLines)

EXT_ZIP == <<".", "z", "i", "p">>
EXT_TAR == <<".", "t", "a", "r">>
EXT_TGZ == <<".", "t", "g", "z">>
EXT_TAR_GZ == <<".", "t", "a", "r", ".", "g", "z">>
\* the archive the delegate downloads for a declaration is named after the
\* project, as the declaration or as the index spells it, and the version
ArchiveName(spelling, version) == <<spelling, "-", version>> \o EXT_ZIP
ArchivesOf(spec) ==
    {ArchiveName(s, pinned_version(spec)) :
        s \in {project_name(spec), IndexSpelling(project_name(spec))}}
ArchiveNames == UNION {ArchivesOf(spec) : spec \in ReqSpecs}

(* --------------------------- pure functions --------------------------- *)
endswith(s, suffix) ==
    /\ Len(suffix) <= Len(s)
    /\ SubSeq(s, Len(s) - Len(suffix) + 1, Len(s)) = suffix

startswith(s, prefix) ==
    /\ Len(prefix) <= Len(s)
    /\ SubSeq(s, 1, Len(prefix)) = prefix

extensions == <<EXT_TAR_GZ, EXT_TGZ, EXT_TAR, EXT_ZIP>>

\* the file name with the first matching extension stripped
strip_extension(filename) ==
    IF \E k \in 1..Len(extensions) : endswith(filename, extensions[k])
    THEN LET k == CHOOSE j \in 1..Len(extensions) :
                     /\ endswith(filename, extensions[j])
                     /\ \A h \in 1..(j - 1) : ~endswith(filename, extensions[h])
         IN SubSeq(filename, 1, Len(filename) - Len(extensions[k]))
    ELSE filename

version_of_archive_raises(filename, package_name) ==
    ~startswith(strip_extension(filename), package_name)

version_of_archive(filename, package_name) ==
    LET stem == strip_extension(filename)
    IN SubSeq(stem, Len(package_name) + 2, Len(stem))

\* the test knowing the short spelling only
is_requirement_flag_short_only(arg) == arg = "-r"

\* arg in ['-r', '--requirement']
is_requirement_flag(arg) == arg \in {"-r", "--requirement"}

RECURSIVE requirement_args_from(_, _, _, _, _)
requirement_args_from(args, k, was_r, want_paths, want_other) ==
    IF k > Len(args) THEN <<>>
    ELSE IF was_r
         THEN (IF want_paths THEN <<args[k]>> ELSE <<>>)
                 \o requirement_args_from(args, k + 1, FALSE, want_paths, want_other)
         ELSE IF is_requirement_flag(args[k])
              THEN requirement_args_from(args, k + 1, TRUE, want_paths, want_other)
              ELSE (IF want_other THEN <<args[k]>> ELSE <<>>)
                      \o requirement_args_from(args, k + 1, FALSE, want_paths, want_other)

\* requirement_args without its test of want_other
requirement_args_any_other(args, want_paths, want_other) ==
    requirement_args_from(args, 1, FALSE, want_paths, TRUE)

requirement_args(args, want_paths, want_other) ==
    requirement_args_from(args, 1, FALSE, want_paths, want_other)

\* Python's argv[n:] of a list whose first element has index 0
ArgsFrom(av, n) == SubSeq(av, n + 1, Len(av))

requirements_path_and_line(req) == <<req.comes_from.path, req.comes_from.line>>

\* linecache.getline: the line, or the empty string when there is none
NoLine == [kind |-> "other", val |-> ""]
getline(files, path, line_number) ==
    IF path \in DOMAIN files /\ line_number \in 1..Len(files[path])
    THEN files[path][line_number]
    ELSE NoLine

\* pip.req.parse_requirements of one file: a requirement for every declaration
RECURSIVE parse_requirements_from(_, _, _)
parse_requirements_from(files, path, k) ==
    IF k > Len(files[path]) THEN <<>>
    ELSE (IF files[path][k].kind = "req"
          THEN <<[name |-> project_name(files[path][k].val),
                  comes_from |-> [path |-> path, line |-> k]]>>
          ELSE <<>>) \o parse_requirements_from(files, path, k + 1)

parse_requirements(files, path) == parse_requirements_from(files, path, 1)

RECURSIVE chain_requirements(_, _, _)
chain_requirements(files, req_paths, k) ==
    IF k > Len(req_paths) THEN <<>>
    ELSE parse_requirements(files, req_paths[k])
            \o chain_requirements(files, req_paths, k + 1)

EmptyMap == [n \in {} |-> ""]
Put(map, key, value) == [n \in DOMAIN map \cup {key} |-> IF n = key THEN value ELSE map[n]]

has_annotation(files, req) ==
    LET pl == requirements_path_and_line(req)
    IN /\ pl[2] > 1
       /\ getline(files, pl[1], pl[2] - 1).kind = "sha"

\* <<expected_hashes, missing_hashes>> after the requirements from k on
RECURSIVE hashes_of_requirements_from(_, _, _, _, _)
hashes_of_requirements_from(files, reqs, k, expected_hashes, missing_hashes) ==
    IF k > Len(reqs) THEN <<expected_hashes, missing_hashes>>
    ELSE LET pl == requirements_path_and_line(reqs[k])
         IN IF has_annotation(files, reqs[k])
            THEN hashes_of_requirements_from(files, reqs, k + 1,
                     Put(expected_hashes, reqs[k].name, getline(files, pl[1], pl[2] - 1).val),
                     missing_hashes)
            ELSE hashes_of_requirements_from(files, reqs, k + 1,
                     expected_hashes, Append(missing_hashes, reqs[k].name))

hashes_of_requirements(files, reqs) ==
    hashes_of_requirements_from(files, reqs, 1, EmptyMap, <<>>)

\* the orders in which a dictionary with these keys may be iterated
Orders(keys) ==
    {o \in [1..Cardinality(keys) -> keys] : \A i, j \in DOMAIN o : i # j => o[i] # o[j]}

\* hash_mismatches with its comparison turned round
is_mismatch_inverted(expected_hash, hash_of_download) == hash_of_download = expected_hash

is_mismatch(expected_hash, hash_of_download) == hash_of_download # expected_hash

\* the tuples hash_mismatches yields when the dictionary iterates in this order
RECURSIVE hash_mismatches_from(_, _, _, _)
hash_mismatches_from(expected_hashes, downloaded_hashes, order, k) ==
    IF k > Len(order) THEN <<>>
    ELSE (IF is_mismatch(expected_hashes[order[k]], downloaded_hashes[order[k]])
          THEN <<[expected |-> expected_hashes[order[k]], name |-> order[k],
                  got |-> downloaded_hashes[order[k]]]>>
          ELSE <<>>) \o hash_mismatches_from(expected_hashes, downloaded_hashes, order, k + 1)

hash_mismatches(expected_hashes, downloaded_hashes, order) ==
    hash_mismatches_from(expected_hashes, downloaded_hashes, order, 1)

\* shlex.split of a requirement declaration: the one word it consists of
shlex_split(line) == <<line.val>>

TempDir == "peep-tmp"

\* pip_download passing every argument of the caller along
pip_download_args_unfiltered(files, req, av) ==
    LET pl == requirements_path_and_line(req)
    IN <<av[2], "--no-deps", "--download", TempDir>>
          \o ArgsFrom(av, 2)
          \o shlex_split(getline(files, pl[1], pl[2]))

\* the arguments pip_download hands to the delegate
pip_download_args(files, req, av) ==
    LET pl == requirements_path_and_line(req)
    IN <<av[2], "--no-deps", "--download", TempDir>>
          \o requirement_args(ArgsFrom(av, 2), FALSE, TRUE)
          \o shlex_split(getline(files, pl[1], pl[2]))

\* run_pip raises PipException(status_code) when the status is not zero
run_pip_raises(status_code) == status_code # 0

\* main answering a PipException with success
PipExceptionReturn_fine(error_code) == ITS_FINE_ITS_FINE

\* main returning its own error status instead of the delegate's
PipExceptionReturn_own_status(error_code) == SOMETHING_WENT_WRONG

\* what main returns when it catches PipException
PipExceptionReturn(error_code) == error_code

\* ephemeral_dir without try/finally: rmtree only after a normal exit
ephemeral_dir_exit_no_finally(raised) == IF raised THEN "present" ELSE "removed"

\* the state of the scratch directory when control leaves ephemeral_dir,
\* normally or (raised) with an exception travelling through it
ephemeral_dir_exit(raised) == "removed"

\* main looking for the subcommand anywhere on the command line
is_install_anywhere(av) == \E k \in 2..Len(av) : av[k] = "install"

\* main's test of the subcommand
is_install(av) == Len(av) >= 2 /\ av[2] = "install"

(* ------------------------------- state -------------------------------- *)
VARIABLES
    argv,                \* sys.argv; argv[1] is the binary name
    pc,                  \* where main is: start, parsed, fetch, install, done
    reqfiles,            \* the requirements files as read: path -> lines
    requirements,        \* the InstallRequirements of the batch, in order
    temp_path,           \* the scratch directory: none, present or removed
    dir,                 \* its listing: file name -> content
    idx,                 \* the requirement the fetch loop is at
    fetched,             \* per iteration of the loop: archive_filename and its hash
    downloaded_hashes,   \* package name -> hash
    downloaded_versions, \* package name -> version
    expected_hashes,     \* package name -> hash, from the annotations
    missing_hashes,      \* names of the requirements without annotation
    mismatches,          \* list(hash_mismatches(...))
    verified,            \* how many times the hashes were compared
    report,              \* what main printed, line by line
    to_install,          \* archives pip_install_archives_from has yet to visit
    installed,           \* archives the delegate installed with status 0
    pipCalls,            \* every call of pip.main, in order
    consumers,           \* registrations in pip's logger singleton
    result,              \* how main ended: return code or exception
    given,               \* the arguments of a function called on its own
    called,              \* whether that function has been called
    returned             \* what it returned

vars == <<argv, pc, reqfiles, requirements, temp_path, dir, idx, fetched,
          downloaded_hashes, downloaded_versions, expected_hashes, missing_hashes,
          mismatches, verified, report, to_install, installed, pipCalls, consumers,
          result, given, called, returned>>

\* the variables of a function called on its own, which main leaves alone
unitVars == <<given, called, returned>>

NoFile == <<>>
NoResult == [kind |-> "none", code |-> 0, exc |-> ""]
Return(code) == [kind |-> "return", code |-> code, exc |-> ""]
Raise(exc) == [kind |-> "raise", code |-> 0, exc |-> exc]

\* a call of pip.main as the delegate saw it: its arguments, the archive it
\* was to install, its status, how many files it added to the scratch
\* directory, and the logger registrations it found when it began
PipCall(kind, args, archive, status, added) ==
    [kind |-> kind, args |-> args, archive |-> archive, status |-> status,
     added |-> added, consumers_before |-> consumers]

\* pip.main registers its consumers with the logger singleton
pip_main_consumers(before) == before + 1

\* run_pip leaving the registrations of the call where they are
run_pip_consumers_kept(before) == pip_main_consumers(before)

\* run_pip: logger.consumers = [] after the call, whatever its status
run_pip_consumers(before) == 0

ReportLine(t, name, text, version) ==
    [t |-> t, name |-> name, text |-> text, version |-> version]
Plain(t) == ReportLine(t, "", "", <<>>)

Init ==
    /\ argv \in {<<"peep">> \o a : a \in SeqsUpTo(ArgTokens, MaxArgs)}
    /\ pc = "start"
    /\ reqfiles = [p \in {} |-> <<>>]
    /\ requirements = <<>>
    /\ temp_path = "none"
    /\ dir = [f \in {} |-> ""]
    /\ idx = 1
    /\ fetched = <<>>
    /\ downloaded_hashes = EmptyMap
    /\ downloaded_versions = [n \in {} |-> <<>>]
    /\ expected_hashes = EmptyMap
    /\ missing_hashes = <<>>
    /\ mismatches = <<>>
    /\ verified = 0
    /\ report = <<>>
    /\ to_install = {}
    /\ installed = {}
    /\ pipCalls = <<>>
    /\ consumers = 0
    /\ result = NoResult
    /\ given = <<>>
    /\ called = FALSE
    /\ returned = <<>>

(* ------------------------------ actions ------------------------------- *)
\* the variables of the batch that a step outside the pipeline leaves alone
batchVars == <<reqfiles, requirements, idx, fetched, downloaded_hashes,
               downloaded_versions, expected_hashes, missing_hashes, mismatches,
               verified, to_install, installed>>

\* leaving the with block: temp_path and dir after ephemeral_dir's exit
LeaveScratch(raised, dir_now) ==
    /\ temp_path' = ephemeral_dir_exit(raised)
    /\ dir' = IF ephemeral_dir_exit(raised) = "removed" THEN [f \in {} |-> ""] ELSE dir_now

\* not "peep install ...": return pip.main(), which reads sys.argv itself
PassThrough ==
    /\ UNCHANGED unitVars
    /\ pc = "start"
    /\ ~is_install(argv)
    /\ \E status \in Statuses :
          /\ pipCalls' = Append(pipCalls, PipCall("main", ArgsFrom(argv, 1), NoFile, status, 0))
          /\ result' = Return(status)
    /\ consumers' = pip_main_consumers(consumers)
    /\ pc' = "done"
    /\ UNCHANGED <<argv, temp_path, dir, report>>
    /\ UNCHANGED batchVars

\* "peep install" without a requirements file
UsageError ==
    /\ UNCHANGED unitVars
    /\ pc = "start"
    /\ is_install(argv)
    /\ requirement_args(ArgsFrom(argv, 1), TRUE, FALSE) = <<>>
    /\ report' = Append(report, Plain("usage"))
    /\ result' = Return(COMMAND_LINE_ERROR)
    /\ pc' = "done"
    /\ UNCHANGED <<argv, temp_path, dir, pipCalls, consumers>>
    /\ UNCHANGED batchVars

\* parse_requirements cannot open one of the paths: the error leaves main
ParseFails ==
    /\ UNCHANGED unitVars
    /\ pc = "start"
    /\ is_install(argv)
    /\ LET req_paths == requirement_args(ArgsFrom(argv, 1), TRUE, FALSE)
       IN /\ req_paths # <<>>
          /\ \E k \in DOMAIN req_paths : req_paths[k] \notin Paths
    /\ result' = Raise("InstallationError")
    /\ pc' = "done"
    /\ UNCHANGED <<argv, temp_path, dir, report, pipCalls, consumers>>
    /\ UNCHANGED batchVars

\* requirements = list(chain(*(parse_requirements(path) for path in req_paths)))
ParseRequirements ==
    /\ UNCHANGED unitVars
    /\ pc = "start"
    /\ is_install(argv)
    /\ LET req_paths == requirement_args(ArgsFrom(argv, 1), TRUE, FALSE)
       IN /\ req_paths # <<>>
          /\ \A k \in DOMAIN req_paths : req_paths[k] \in Paths
          /\ \E files \in [{req_paths[k] : k \in DOMAIN req_paths} -> FileContents] :
                /\ reqfiles' = files
                /\ requirements' = chain_requirements(files, req_paths, 1)
    /\ pc' = "parsed"
    /\ UNCHANGED <<argv, temp_path, dir, idx, fetched, downloaded_hashes,
                   downloaded_versions, expected_hashes, missing_hashes, mismatches,
                   verified, report, to_install, installed, pipCalls, consumers, result>>

\* with ephemeral_dir() as temp_path: mkdtemp
AcquireScratch ==
    /\ UNCHANGED unitVars
    /\ pc = "parsed"
    /\ temp_path' = "present"
    /\ dir' = [f \in {} |-> ""]
    /\ pc' = "fetch"
    /\ UNCHANGED <<argv, report, pipCalls, consumers, result>>
    /\ UNCHANGED batchVars

\* the directory after the delegate wrote (or did not write) an archive
DirAfter(wrote, content) ==
    IF wrote = NoFile THEN dir
    ELSE [f \in DOMAIN dir \cup {wrote} |-> IF f = wrote THEN content ELSE dir[f]]

\* the listing after the download, old_contents not taken away
NewFiles_whole_listing(dir_after) == DOMAIN dir_after

\* set(listdir(temp_path)) - old_contents
NewFiles(dir_after) == DOMAIN dir_after \ DOMAIN dir

\* what the delegate leaves in the directory for the requirement at idx: an
\* archive of the declaration it was given or, when it fails, maybe nothing
Written(status) ==
    LET args == pip_download_args(reqfiles, requirements[idx], argv)
    IN ArchivesOf(args[Len(args)]) \cup (IF status = 0 THEN {} ELSE {NoFile})

DownloadCall(status, dir_after) ==
    /\ pipCalls' = Append(pipCalls,
          PipCall("download", pip_download_args(reqfiles, requirements[idx], argv),
                  NoFile, status, Cardinality(DOMAIN dir_after \ DOMAIN dir)))
    /\ consumers' = run_pip_consumers(consumers)

\* one turn of the loop, the delegate failing: PipException leaves the with
\* block and main returns its error code
FetchPipFails ==
    /\ UNCHANGED unitVars
    /\ pc = "fetch"
    /\ idx <= Len(requirements)
    /\ \E status \in Statuses : \E wrote \in Written(status), content \in Contents :
          /\ run_pip_raises(status)
          /\ DownloadCall(status, DirAfter(wrote, content))
          /\ LeaveScratch(TRUE, DirAfter(wrote, content))
          /\ result' = Return(PipExceptionReturn(status))
    /\ pc' = "done"
    /\ UNCHANGED <<argv, report>>
    /\ UNCHANGED batchVars

\* one turn of the loop, the download leaving no new file: pop() of an empty
\* set raises KeyError
FetchNoNewFile ==
    /\ UNCHANGED unitVars
    /\ pc = "fetch"
    /\ idx <= Len(requirements)
    /\ \E status \in Statuses : \E wrote \in Written(status), content \in Contents :
          /\ ~run_pip_raises(status)
          /\ NewFiles(DirAfter(wrote, content)) = {}
          /\ DownloadCall(status, DirAfter(wrote, content))
          /\ LeaveScratch(TRUE, DirAfter(wrote, content))
    /\ result' = Raise("KeyError")
    /\ pc' = "done"
    /\ UNCHANGED <<argv, report>>
    /\ UNCHANGED batchVars

\* one turn of the loop, the archive's name not starting with the package
\* name: version_of_archive raises RuntimeError after the hash was recorded
FetchBadName ==
    /\ UNCHANGED unitVars
    /\ pc = "fetch"
    /\ idx <= Len(requirements)
    /\ \E status \in Statuses : \E wrote \in Written(status), content \in Contents :
          LET dir_after == DirAfter(wrote, content)
              name == requirements[idx].name
          IN /\ ~run_pip_raises(status)
             /\ NewFiles(dir_after) # {}
             /\ \E archive_filename \in NewFiles(dir_after) :
                   /\ version_of_archive_raises(archive_filename, <<name>>)
                   /\ downloaded_hashes' =
                         Put(downloaded_hashes, name, hash_of_file(dir_after, archive_filename))
                   /\ fetched' = Append(fetched,
                         [file |-> archive_filename,
                          hash |-> hash_of_file(dir_after, archive_filename)])
             /\ DownloadCall(status, dir_after)
             /\ LeaveScratch(TRUE, dir_after)
    /\ result' = Raise("RuntimeError")
    /\ pc' = "done"
    /\ UNCHANGED <<argv, report, reqfiles, requirements, idx,
                   downloaded_versions, expected_hashes, missing_hashes, mismatches,
                   verified, to_install, installed>>

\* a loop that compares the hashes on every turn
FetchOk_comparing ==
    /\ UNCHANGED unitVars
    /\ pc = "fetch"
    /\ idx <= Len(requirements)
    /\ \E status \in Statuses : \E wrote \in Written(status), content \in Contents :
          LET dir_after == DirAfter(wrote, content)
              name == requirements[idx].name
          IN /\ ~run_pip_raises(status)
             /\ NewFiles(dir_after) # {}
             /\ \E archive_filename \in NewFiles(dir_after) :
                   /\ ~version_of_archive_raises(archive_filename, <<name>>)
                   /\ downloaded_hashes' =
                         Put(downloaded_hashes, name, hash_of_file(dir_after, archive_filename))
                   /\ downloaded_versions' =
                         [n \in DOMAIN downloaded_versions \cup {name} |->
                            IF n = name THEN version_of_archive(archive_filename, <<name>>)
                            ELSE downloaded_versions[n]]
                   /\ fetched' = Append(fetched,
                         [file |-> archive_filename,
                          hash |-> hash_of_file(dir_after, archive_filename)])
             /\ DownloadCall(status, dir_after)
             /\ dir' = dir_after
    /\ idx' = idx + 1
    /\ verified' = verified + 1
    /\ UNCHANGED <<argv, pc, reqfiles, requirements, temp_path, expected_hashes,
                   missing_hashes, mismatches, report, to_install, installed,
                   result>>

\* one turn of the loop: download, hash_of_file, version_of_archive
FetchOk ==
    /\ UNCHANGED unitVars
    /\ pc = "fetch"
    /\ idx <= Len(requirements)
    /\ \E status \in Statuses : \E wrote \in Written(status), content \in Contents :
          LET dir_after == DirAfter(wrote, content)
              name == requirements[idx].name
          IN /\ ~run_pip_raises(status)
             /\ NewFiles(dir_after) # {}
             /\ \E archive_filename \in NewFiles(dir_after) :
                   /\ ~version_of_archive_raises(archive_filename, <<name>>)
                   /\ downloaded_hashes' =
                         Put(downloaded_hashes, name, hash_of_file(dir_after, archive_filename))
                   /\ downloaded_versions' =
                         [n \in DOMAIN downloaded_versions \cup {name} |->
                            IF n = name THEN version_of_archive(archive_filename, <<name>>)
                            ELSE downloaded_versions[n]]
                   /\ fetched' = Append(fetched,
                         [file |-> archive_filename,
                          hash |-> hash_of_file(dir_after, archive_filename)])
             /\ DownloadCall(status, dir_after)
             /\ dir' = dir_after
    /\ idx' = idx + 1
    /\ UNCHANGED <<argv, pc, reqfiles, requirements, temp_path, expected_hashes,
                   missing_hashes, mismatches, verified, report, to_install, installed,
                   result>>

\* the two lines main prints for every mismatch, from the k-th on
RECURSIVE MismatchLines(_, _, _)
MismatchLines(mm, hashes, k) ==
    IF k > Len(mm) THEN <<>>
    ELSE (IF hashes[mm[k].name] # mm[k].expected
          THEN <<ReportLine("expected", mm[k].name, mm[k].expected, <<>>),
                 ReportLine("got", mm[k].name, hashes[mm[k].name], <<>>)>>
          ELSE <<>>) \o MismatchLines(mm, hashes, k + 1)

\* the two lines main prints for every package without a hash, from the k-th on
RECURSIVE MissingLines(_, _, _, _)
MissingLines(missing, hashes, versions, k) ==
    IF k > Len(missing) THEN <<>>
    ELSE <<ReportLine("sha256", "", hashes[missing[k]], <<>>),
           ReportLine("pin", missing[k], "", versions[missing[k]])>>
            \o MissingLines(missing, hashes, versions, k + 1)

\* everything main prints between the fetch loop and its decision
ReportOf(mm, missing, hashes, versions) ==
    (IF mm # <<>> \/ missing # <<>> THEN <<Plain("blank")>> ELSE <<>>)
    \o (IF mm # <<>> THEN <<Plain("mismatch_header")>> ELSE <<>>)
    \o MismatchLines(mm, hashes, 1)
    \o (IF mm # <<>> THEN <<Plain("blank")>> ELSE <<>>)
    \o (IF missing # <<>> THEN <<Plain("missing_header")>> ELSE <<>>)
    \o MissingLines(missing, hashes, versions, 1)
    \o (IF mm # <<>> \/ missing # <<>>
        THEN <<Plain("rule"), Plain("not_proceeding")>> ELSE <<>>)

\* main going on to install when only hashes are missing
refuses_mismatch_only(mm, missing) == mm # <<>>

\* main's decision after the comparison: TRUE when it does not install
refuses(mm, missing) == mm # <<>> \/ missing # <<>>

\* after the loop: hashes_of_requirements, hash_mismatches and the report
Verify(abort) ==
    /\ UNCHANGED unitVars
    /\ pc = "fetch"
    /\ idx > Len(requirements)
    /\ LET hr == hashes_of_requirements(reqfiles, requirements)
       IN \E order \in Orders(DOMAIN hr[1]) :
            LET mm == hash_mismatches(hr[1], downloaded_hashes, order)
            IN /\ abort = refuses(mm, hr[2])
               /\ expected_hashes' = hr[1]
               /\ missing_hashes' = hr[2]
               /\ mismatches' = mm
               /\ report' = report \o ReportOf(mm, hr[2], downloaded_hashes,
                                                downloaded_versions)
    /\ verified' = verified + 1
    /\ UNCHANGED <<argv, reqfiles, requirements, idx, fetched, downloaded_hashes,
                   downloaded_versions, installed, pipCalls, consumers>>

\* some hash is wrong or missing: "Not proceeding to installation."
VerifyAbort ==
    /\ Verify(TRUE)
    /\ LeaveScratch(FALSE, dir)
    /\ result' = Return(SOMETHING_WENT_WRONG)
    /\ pc' = "done"
    /\ UNCHANGED to_install

\* every hash is as expected: pip_install_archives_from lists the directory
VerifyPass ==
    /\ Verify(FALSE)
    /\ to_install' = DOMAIN dir
    /\ pc' = "install"
    /\ UNCHANGED <<temp_path, dir, result>>

InstallCall(filename, status) ==
    /\ pipCalls' = Append(pipCalls,
          PipCall("install", <<"install", "--no-deps">>, filename, status, 0))
    /\ consumers' = run_pip_consumers(consumers)

\* one turn of pip_install_archives_from, in whatever order listdir gave
InstallArchive ==
    /\ UNCHANGED unitVars
    /\ pc = "install"
    /\ \E filename \in to_install, status \in Statuses :
          /\ ~run_pip_raises(status)
          /\ InstallCall(filename, status)
          /\ installed' = installed \cup {filename}
          /\ to_install' = to_install \ {filename}
    /\ UNCHANGED <<argv, pc, reqfiles, requirements, temp_path, dir, idx, fetched,
                   downloaded_hashes, downloaded_versions, expected_hashes,
                   missing_hashes, mismatches, verified, report, result>>

\* one turn of pip_install_archives_from, the delegate failing
InstallPipFails ==
    /\ UNCHANGED unitVars
    /\ pc = "install"
    /\ \E filename \in to_install, status \in Statuses :
          /\ run_pip_raises(status)
          /\ InstallCall(filename, status)
          /\ to_install' = to_install \ {filename}
          /\ result' = Return(PipExceptionReturn(status))
    /\ LeaveScratch(TRUE, dir)
    /\ pc' = "done"
    /\ UNCHANGED <<argv, reqfiles, requirements, idx, fetched, downloaded_hashes,
                   downloaded_versions, expected_hashes, missing_hashes, mismatches,
                   verified, report, installed>>

\* every archive was installed: the with block ends, main returns 0
InstallDone ==
    /\ UNCHANGED unitVars
    /\ pc = "install"
    /\ to_install = {}
    /\ LeaveScratch(FALSE, dir)
    /\ result' = Return(ITS_FINE_ITS_FINE)
    /\ pc' = "done"
    /\ UNCHANGED <<argv, report, pipCalls, consumers>>
    /\ UNCHANGED batchVars

Next ==
    \/ PassThrough
    \/ UsageError
    \/ ParseFails
    \/ ParseRequirements
    \/ AcquireScratch
    \/ FetchPipFails
    \/ FetchNoNewFile
    \/ FetchBadName
    \/ FetchOk
    \/ VerifyAbort
    \/ VerifyPass
    \/ InstallArchive
    \/ InstallPipFails
    \/ InstallDone

Spec == Init /\ [][Next]_vars

TypeOK ==
    /\ pc \in {"start", "parsed", "fetch", "install", "done"}
    /\ temp_path \in {"none", "present", "removed"}
    /\ idx \in 1..(Len(requirements) + 1)
    /\ Len(fetched) \in {idx - 1, idx}
    /\ (Len(fetched) = idx) => (result = Raise("RuntimeError"))
    /\ installed \subseteq ArchiveNames
    /\ (pc = "done") = (result.kind # "none")

(* --------------------- vocabulary of the properties ------------------- *)
NoHash == "none"

\* the hash declared for the k-th requirement: the annotation on the line
\* right above it in its own file, if there is one
DeclaredHash(k) ==
    LET p == requirements[k].comes_from.path
        n == requirements[k].comes_from.line
    IN IF n > 1 /\ reqfiles[p][n - 1].kind = "sha" THEN reqfiles[p][n - 1].val ELSE NoHash

\* the verdict on the k-th requirement, whose own archive is fetched[k]
Verdict(k) ==
    IF DeclaredHash(k) = NoHash THEN "Unexpected"
    ELSE IF DeclaredHash(k) = fetched[k].hash THEN "Matched" ELSE "Mismatched"

Reqs == DOMAIN requirements
\* every requirement went through the fetch loop
FetchComplete == idx > Len(requirements)
\* every requirement has an archive of its own
AllDownloaded == Len(fetched) = Len(requirements)

CallsOf(kind) == {j \in DOMAIN pipCalls : pipCalls[j].kind = kind}
InstallInvoked == CallsOf("install") # {}
AllCallsSucceeded == \A j \in DOMAIN pipCalls : pipCalls[j].status = 0
Downloaded == {fetched[k].file : k \in DOMAIN fetched}
Printed(line) == \E j \in DOMAIN report : report[j] = line
Ended == pc = "done"
\* main read the requirements files of the batch
BatchRead == DOMAIN reqfiles # {}

\* the command line after the binary name and after the subcommand
CommandLine == ArgsFrom(argv, 1)
Options == ArgsFrom(argv, 2)
InstallCommand == Len(CommandLine) >= 1 /\ CommandLine[1] = "install"
\* -r or --requirement with something after it
NamesReqFile == \E j \in 1..(Len(Options) - 1) : Options[j] \in {"-r", "--requirement"}

(* ------------------------------ properties ---------------------------- *)
\* C1: the install delegate is never invoked unless every requirement of the
\* batch has a declared hash equal to the digest of its own downloaded archive
C1_InstallOnlyIfAllMatched ==
    InstallInvoked => /\ AllDownloaded
                      /\ \A k \in Reqs : Verdict(k) = "Matched"

\* C2: when the run has ended, every downloaded archive is installed or none is
C2_AllOrNothing ==
    Ended => (installed = {} \/ installed = Downloaded)

\* C3: all downloads done and some requirement mismatched: nothing is
\* installed, the report names exactly the mismatched packages, each with its
\* expected and actual hash, and main returns 1
C3_MismatchBlocksBatch ==
    (Ended /\ FetchComplete /\ \E k \in Reqs : Verdict(k) = "Mismatched") =>
        /\ ~InstallInvoked
        /\ installed = {}
        /\ result = Return(SOMETHING_WENT_WRONG)
        /\ \A k \in Reqs : Verdict(k) = "Mismatched" =>
              /\ Printed(ReportLine("expected", requirements[k].name, DeclaredHash(k), <<>>))
              /\ Printed(ReportLine("got", requirements[k].name, fetched[k].hash, <<>>))
        /\ \A j \in DOMAIN report : report[j].t \in {"expected", "got"} =>
              \E k \in Reqs : /\ Verdict(k) = "Mismatched"
                               /\ requirements[k].name = report[j].name

\* C4: no run ends with its scratch directory still present
C4_ScratchRemoved ==
    Ended => (temp_path # "present" /\ DOMAIN dir = {})

\* a run that acquired the directory, then left main with an error, removed it
C4_Witness ==
    /\ Ended
    /\ result.kind = "raise"
    /\ temp_path = "removed"

\* C5: a download with status c # 0 is the last call of the run: no later
\* download, no comparison, no report, no install, and main returns c
C5_DownloadFailureAborts ==
    \A j \in CallsOf("download") : pipCalls[j].status # 0 =>
        /\ j = Len(pipCalls)
        /\ verified = 0
        /\ report = <<>>
        /\ ~InstallInvoked
        /\ installed = {}
        /\ Ended
        /\ result = Return(pipCalls[j].status)

\* the second download of a batch failed with the largest status
C5_Witness ==
    /\ Len(pipCalls) = 2
    /\ Len(requirements) > 2
    /\ pipCalls[2].kind = "download"
    /\ pipCalls[2].status = MaxStatus
    /\ result = Return(MaxStatus)

Unannotated == {k \in Reqs : DeclaredHash(k) = NoHash}
\* the delegate was asked for every requirement and never reported a failure
AllDownloadsSucceeded ==
    /\ Cardinality(CallsOf("download")) = Len(requirements)
    /\ \A j \in CallsOf("download") : pipCalls[j].status = 0
AllDownloadsSucceededSoFar == \A j \in CallsOf("download") : pipCalls[j].status = 0
InSeq(s, x) == \E j \in DOMAIN s : s[j] = x

\* C6 as stated: with every download succeeding, one requirement without an
\* annotation keeps everything from being installed and main returns 1
C6_MissingHashReturnsOne ==
    (Ended /\ AllDownloadsSucceeded /\ Unannotated # {}) =>
        /\ ~InstallInvoked
        /\ result = Return(SOMETHING_WENT_WRONG)

\* C6 amended: a requirement without annotation on the line above keeps
\* every run from installing anything; when the fetch loop got through every
\* requirement it is listed as missing whatever its archive holds and main
\* returns 1; when it did not, main ends with the delegate's status or with
\* the error of the turn that failed
C6_MissingHashBlocks ==
    (Unannotated # {}) =>
        /\ ~InstallInvoked
        /\ installed = {}
        /\ pc # "install"
        /\ (Ended /\ FetchComplete) =>
              /\ result = Return(SOMETHING_WENT_WRONG)
              /\ \A k \in Unannotated :
                    /\ InSeq(missing_hashes, requirements[k].name)
                    /\ \E j \in DOMAIN report :
                          report[j].t = "pin" /\ report[j].name = requirements[k].name
        /\ (Ended /\ ~FetchComplete) =>
              \/ result.kind = "raise" /\ AllDownloadsSucceededSoFar
              \/ /\ result = Return(pipCalls[Len(pipCalls)].status)
                 /\ pipCalls[Len(pipCalls)].status # 0

\* two requirements, the first annotated and matched, the second without
\* annotation: the run ended with 1 and nothing installed
C6_Witness ==
    /\ Ended
    /\ Len(requirements) = 2
    /\ FetchComplete
    /\ Verdict(1) = "Matched"
    /\ Verdict(2) = "Unexpected"
    /\ result = Return(SOMETHING_WENT_WRONG)

\* C7 as stated: every requirement annotated with the digest of its archive
\* and every delegate call succeeding: every archive is installed once,
\* nothing is reported and main returns 0
C7_MatchedBatchInstalls ==
    (Ended /\ BatchRead /\ AllDownloadsSucceeded /\ AllCallsSucceeded /\ AllDownloaded
           /\ \A k \in Reqs : Verdict(k) = "Matched") =>
        /\ result = Return(ITS_FINE_ITS_FINE)
        /\ installed = Downloaded
        /\ report = <<>>

\* C7 amended: if moreover every download added a new archive whose name
\* starts with the package name (the fetch loop got through every requirement),
\* the run installs every archive exactly once, reports nothing and returns 0
C7_MatchedBatchInstallsWhenFetched ==
    (Ended /\ BatchRead /\ FetchComplete /\ AllCallsSucceeded
           /\ \A k \in Reqs : Verdict(k) = "Matched") =>
        /\ result = Return(ITS_FINE_ITS_FINE)
        /\ verified = 1
        /\ installed = Downloaded
        /\ \A f \in Downloaded :
              Cardinality({j \in CallsOf("install") : pipCalls[j].archive = f}) = 1
        /\ \A j \in CallsOf("install") : pipCalls[j].archive \in Downloaded
        /\ report = <<>>

\* two requirements files with one package each, both installed, status 0
C7_Witness ==
    /\ Ended
    /\ result = Return(ITS_FINE_ITS_FINE)
    /\ Cardinality(DOMAIN reqfiles) = 2
    /\ Len(requirements) = 2
    /\ requirements[1].comes_from.path # requirements[2].comes_from.path
    /\ \A k \in Reqs : Verdict(k) = "Matched"
    /\ Cardinality(installed) = 2
    /\ Cardinality(CallsOf("install")) = 2

\* C8: "install" without a requirements file: main returns 2, no scratch
\* directory, no file parsed, no call of the delegate
C8_NoRequirementsFile ==
    (InstallCommand /\ ~NamesReqFile) =>
        /\ temp_path = "none"
        /\ reqfiles = [p \in {} |-> <<>>]
        /\ requirements = <<>>
        /\ pipCalls = <<>>
        /\ pc \in {"start", "done"}
        /\ Ended => result = Return(COMMAND_LINE_ERROR)

\* "install" with options and a trailing -r ended with 2
C8_Witness ==
    /\ Ended
    /\ InstallCommand
    /\ Len(Options) >= 2
    /\ Options[Len(Options)] = "-r"
    /\ result = Return(COMMAND_LINE_ERROR)
    /\ Printed(Plain("usage"))

\* C9: with every requirement downloaded, the report holds every requirement
\* whose digest differs from its declared hash and every one without a hash
C9_ReportsEveryProblem ==
    (Ended /\ FetchComplete) =>
        \A k \in Reqs :
            /\ Verdict(k) = "Mismatched" =>
                  /\ Printed(ReportLine("expected", requirements[k].name, DeclaredHash(k), <<>>))
                  /\ Printed(ReportLine("got", requirements[k].name, fetched[k].hash, <<>>))
            /\ Verdict(k) = "Unexpected" =>
                  \E j \in DOMAIN report :
                      report[j].t = "pin" /\ report[j].name = requirements[k].name

\* C10: no "install" as first argument: the delegate gets the command line
\* as it is, once, and its status is main's; no scratch directory, no
\* parsing, no download, no comparison, no install, nothing printed
C10_PassThrough ==
    ~InstallCommand =>
        /\ temp_path = "none"
        /\ reqfiles = [p \in {} |-> <<>>]
        /\ requirements = <<>>
        /\ verified = 0
        /\ installed = {}
        /\ report = <<>>
        /\ \A j \in DOMAIN pipCalls : pipCalls[j].kind = "main"
        /\ pc \in {"start", "done"}
        /\ Ended => /\ Len(pipCalls) = 1
                    /\ pipCalls[1].args = CommandLine
                    /\ result = Return(pipCalls[1].status)

\* "peep -r f1 ..." was handed to the delegate, whose status 2 main returned
C10_Witness ==
    /\ Ended
    /\ Len(CommandLine) >= 3
    /\ CommandLine[1] = "-r"
    /\ CommandLine[2] \in Paths
    /\ "install" \in {CommandLine[j] : j \in DOMAIN CommandLine}
    /\ Len(pipCalls) = 1
    /\ result = Return(MaxStatus)

(* ====================================================================== *)
(* Functions called on their own                                          *)
(* ====================================================================== *)
\* the variables of main
mainVars == <<argv, pc, reqfiles, requirements, temp_path, dir, idx, fetched,
              downloaded_hashes, downloaded_versions, expected_hashes,
              missing_hashes, mismatches, verified, report, to_install, installed,
              pipCalls, consumers, result>>

\* main is not running
MainIdle ==
    /\ argv = <<>>
    /\ pc = "done"
    /\ reqfiles = [p \in {} |-> <<>>]
    /\ requirements = <<>>
    /\ temp_path = "none"
    /\ dir = [f \in {} |-> ""]
    /\ idx = 1
    /\ fetched = <<>>
    /\ downloaded_hashes = EmptyMap
    /\ downloaded_versions = [n \in {} |-> <<>>]
    /\ expected_hashes = EmptyMap
    /\ missing_hashes = <<>>
    /\ mismatches = <<>>
    /\ verified = 0
    /\ report = <<>>
    /\ to_install = {}
    /\ installed = {}
    /\ pipCalls = <<>>
    /\ consumers = 0
    /\ result = NoResult

(* ------------------------------ encoded_hash -------------------------- *)
\* longest digest of which every value over SampleBytes is tried
MaxDigestLen == 3

\* sha256().digest() is 32 bytes long
SHA256_DIGEST_SIZE == 32

\* byte values that set and clear the high and the low bits of every sextet
SampleBytes == {0, 15, 62, 63, 251, 255}

\* sha.digest(): short digests of every value and full length ones
Digests ==
    SeqsUpTo(SampleBytes, MaxDigestLen)
        \cup {[i \in 1..SHA256_DIGEST_SIZE |-> IF i % 3 = 1 THEN b ELSE c] :
                 b \in SampleBytes, c \in SampleBytes}

\* the alphabet of base64.b64encode
b64_alphabet ==
    <<"A", "B", "C", "D", "E", "F", "G", "H", "I", "J", "K", "L", "M",
      "N", "O", "P", "Q", "R", "S", "T", "U", "V", "W", "X", "Y", "Z",
      "a", "b", "c", "d", "e", "f", "g", "h", "i", "j", "k", "l", "m",
      "n", "o", "p", "q", "r", "s", "t", "u", "v", "w", "x", "y", "z",
      "0", "1", "2", "3", "4", "5", "6", "7", "8", "9", "+", "/">>

\* base64.b64encode: three bytes make four sextets, the last group is
\* filled with zero bits and its unused sextets are written "="
b64encode(s) ==
    LET n == Len(s)
        at(i) == IF i <= n THEN s[i] ELSE 0
        sextet(g, k) ==
            LET b1 == at(3 * g + 1)
                b2 == at(3 * g + 2)
                b3 == at(3 * g + 3)
            IN CASE k = 0 -> b1 \div 4
                 [] k = 1 -> (b1 % 4) * 16 + b2 \div 16
                 [] k = 2 -> (b2 % 16) * 4 + b3 \div 64
                 [] k = 3 -> b3 % 64
        groups == (n + 2) \div 3
        used(g) == IF 3 * g + 3 <= n THEN 4 ELSE (n - 3 * g) + 1
    IN [j \in 1..(4 * groups) |->
           LET g == (j - 1) \div 4
               k == (j - 1) % 4
           IN IF k < used(g) THEN b64_alphabet[sextet(g, k) + 1] ELSE "="]

\* the translation of urlsafe_b64encode: "+" to "-" and "/" to "_"
urlsafe_translate(c) == IF c = "+" THEN "-" ELSE IF c = "/" THEN "_" ELSE c

\* base64.urlsafe_b64encode
urlsafe_b64encode(s) == [j \in DOMAIN b64encode(s) |-> urlsafe_translate(b64encode(s)[j])]

\* str.rstrip(chars) for one character
RECURSIVE rstrip(_, _)
rstrip(s, c) ==
    IF s # <<>> /\ s[Len(s)] = c THEN rstrip(SubSeq(s, 1, Len(s) - 1), c) ELSE s

\* encoded_hash keeping the padding
encoded_hash_padded(digest) == urlsafe_b64encode(digest)

\* encoded_hash(sha), given sha.digest()
encoded_hash(digest) == rstrip(urlsafe_b64encode(digest), "=")

InitDigest ==
    /\ MainIdle
    /\ given \in Digests
    /\ called = FALSE
    /\ returned = <<>>

\* encoded_hash is called with the digest
EncodedHash ==
    /\ ~called
    /\ returned' = encoded_hash(given)
    /\ called' = TRUE
    /\ UNCHANGED given
    /\ UNCHANGED mainVars

NextDigest == EncodedHash

SpecDigest == InitDigest /\ [][NextDigest]_vars

\* the characters the encoding may use: A-Z, a-z, 0-9, "-" and "_"
UrlSafeChars ==
    {"A", "B", "C", "D", "E", "F", "G", "H", "I", "J", "K", "L", "M",
     "N", "O", "P", "Q", "R", "S", "T", "U", "V", "W", "X", "Y", "Z"}
    \cup {"a", "b", "c", "d", "e", "f", "g", "h", "i", "j", "k", "l", "m",
          "n", "o", "p", "q", "r", "s", "t", "u", "v", "w", "x", "y", "z"}
    \cup {"0", "1", "2", "3", "4", "5", "6", "7", "8", "9"}
    \cup {"-", "_"}

\* the value RFC 4648 section 5 gives a character of the URL-safe alphabet
Rfc4648Value(c) ==
    LET table == <<"A", "B", "C", "D", "E", "F", "G", "H", "I", "J", "K", "L", "M",
                   "N", "O", "P", "Q", "R", "S", "T", "U", "V", "W", "X", "Y", "Z",
                   "a", "b", "c", "d", "e", "f", "g", "h", "i", "j", "k", "l", "m",
                   "n", "o", "p", "q", "r", "s", "t", "u", "v", "w", "x", "y", "z",
                   "0", "1", "2", "3", "4", "5", "6", "7", "8", "9", "-", "_">>
    IN (CHOOSE v \in 1..64 : table[v] = c) - 1

\* the bytes a text without padding stands for: every full octet of its bits
Rfc4648Decode(text) ==
    LET bit(p) == (Rfc4648Value(text[(p \div 6) + 1]) \div (2 ^ (5 - (p % 6)))) % 2
        byte(i) == LET base == 8 * (i - 1)
                   IN  128 * bit(base) + 64 * bit(base + 1) + 32 * bit(base + 2)
                     + 16 * bit(base + 3) + 8 * bit(base + 4) + 4 * bit(base + 5)
                     + 2 * bit(base + 6) + bit(base + 7)
    IN [i \in 1..((6 * Len(text)) \div 8) |-> byte(i)]

\* C11: for every digest, encoded_hash returns its URL-safe base-64 encoding
\* without the trailing padding: the result has only characters of A-Z, a-z,
\* 0-9, "-" and "_", never "=", is as long as the unpadded encoding of that
\* many bytes is, and decodes to the digest
C11_EncodedHashUrlSafe ==
    called =>
        /\ \A j \in DOMAIN returned : returned[j] \in UrlSafeChars
        /\ \A j \in DOMAIN returned : returned[j] # "="
        /\ Len(returned) = (8 * Len(given) + 5) \div 6
        /\ Rfc4648Decode(returned) = given

\* a full length digest whose encoding uses "-" and "_" and ended in padding
C11_Witness ==
    /\ called
    /\ Len(given) = SHA256_DIGEST_SIZE
    /\ Len(urlsafe_b64encode(given)) = Len(returned) + 1
    /\ \E j \in DOMAIN returned : returned[j] = "-"
    /\ \E j \in DOMAIN returned : returned[j] = "_"

(* ------------------------ what the installer is given ------------------ *)
\* the iterations of the fetch loop that produced the archive
FetchesOf(filename) == {k \in DOMAIN fetched : fetched[k].file = filename}

\* C12: every archive passed to the install delegate was hashed in the fetch
\* phase as the archive of some requirement, and that digest is equal to the
\* hash declared for that requirement
C12_InstalledWereVerified ==
    \A j \in CallsOf("install") :
        /\ FetchesOf(pipCalls[j].archive) # {}
        /\ \A k \in FetchesOf(pipCalls[j].archive) :
              k \in Reqs /\ Verdict(k) = "Matched"

(* ------------------------ hashes_of_requirements ----------------------- *)
\* the longest first requirements file hashes_of_requirements is tried on
MaxLinesH == 3

\* hashes_of_requirements is given the requirements of files f1 and f2
InitHashes ==
    /\ MainIdle
    /\ \E c1 \in SeqsUpTo(Lines, MaxLinesH), c2 \in FileContents :
          LET files == [p \in Paths |-> IF p = "f1" THEN c1 ELSE c2]
          IN given = [files |-> files,
                      requirements |-> chain_requirements(files, <<"f1", "f2">>, 1)]
    /\ called = FALSE
    /\ returned = <<>>

HashesOfRequirements ==
    /\ ~called
    /\ returned' = hashes_of_requirements(given.files, given.requirements)
    /\ called' = TRUE
    /\ UNCHANGED given
    /\ UNCHANGED mainVars

NextHashes == HashesOfRequirements

SpecHashes == InitHashes /\ [][NextHashes]_vars

\* the line right above the k-th requirement given, in its own file, is a
\* trust annotation
AnnotatedAbove(k) ==
    LET f == given.files[given.requirements[k].comes_from.path]
        n == given.requirements[k].comes_from.line
    IN n > 1 /\ f[n - 1].kind = "sha"

\* the result has an expected hash for the k-th requirement given
HasExpectation(k) == given.requirements[k].name \in DOMAIN returned[1]

\* C13: hashes_of_requirements has an expected hash for a requirement exactly
\* when the requirement is not on line 1 and the line right above it in the
\* same file is a trust annotation; a requirement without one is listed in
\* the missing-hash result
C13_AnnotationRightAbove ==
    called =>
        \A k \in DOMAIN given.requirements :
            /\ HasExpectation(k) <=> AnnotatedAbove(k)
            /\ ~HasExpectation(k) => InSeq(returned[2], given.requirements[k].name)

(* -------------------------- version_of_archive ------------------------- *)
\* the longest stem and the longest package name version_of_archive is tried on
MaxStem == 3
MaxName == 2

StemChars == {"a", "b", "-", "1"}
NameChars == {"a", "b"}

\* file names: a stem, then nothing, an extension or two of them
FileNames ==
    {stem \o inner \o ext :
        stem \in SeqsUpTo(StemChars, MaxStem),
        inner \in {<<>>, EXT_ZIP, EXT_TAR},
        ext \in {<<>>, EXT_TAR_GZ, EXT_TGZ, EXT_TAR, EXT_ZIP}}

PackageNames == SeqsUpTo(NameChars, MaxName) \ {<<>>}

InitVersion ==
    /\ MainIdle
    /\ given \in [filename : FileNames, package_name : PackageNames]
    /\ called = FALSE
    /\ returned = <<>>

\* version_of_archive raises RuntimeError
VersionOfArchiveRaises ==
    /\ ~called
    /\ version_of_archive_raises(given.filename, given.package_name)
    /\ returned' = [raised |-> TRUE, value |-> <<>>]
    /\ called' = TRUE
    /\ UNCHANGED given
    /\ UNCHANGED mainVars

\* version_of_archive returns
VersionOfArchiveReturns ==
    /\ ~called
    /\ ~version_of_archive_raises(given.filename, given.package_name)
    /\ returned' = [raised |-> FALSE,
                    value |-> version_of_archive(given.filename, given.package_name)]
    /\ called' = TRUE
    /\ UNCHANGED given
    /\ UNCHANGED mainVars

NextVersion ==
    \/ VersionOfArchiveRaises
    \/ VersionOfArchiveReturns

SpecVersion == InitVersion /\ [][NextVersion]_vars

\* the file name without the last n characters
DropLast(s, n) == SubSeq(s, 1, Len(s) - n)

\* the stem: the name without the first of .tar.gz, .tgz, .tar, .zip it ends with
StemOf(filename) ==
    IF endswith(filename, <<".", "t", "a", "r", ".", "g", "z">>) THEN DropLast(filename, 7)
    ELSE IF endswith(filename, <<".", "t", "g", "z">>) THEN DropLast(filename, 4)
    ELSE IF endswith(filename, <<".", "t", "a", "r">>) THEN DropLast(filename, 4)
    ELSE IF endswith(filename, <<".", "z", "i", "p">>) THEN DropLast(filename, 4)
    ELSE filename

Separator == "-"

\* C14: version_of_archive strips at most one archive suffix and fails unless
\* the stem is the package name, a separator and a rest; then it returns
\* exactly the rest
C14_VersionAfterSeparator ==
    called =>
        LET stem == StemOf(given.filename)
            head == given.package_name \o <<Separator>>
        IN IF startswith(stem, head)
           THEN /\ ~returned.raised
                /\ head \o returned.value = stem
           ELSE returned.raised

(* ------------------ the caller's arguments, by position ---------------- *)
FlagWord(a) == a \in {"-r", "--requirement"}

\* how many -r/--requirement words stand in a row right before position i
FlagWordsBefore(args, i) ==
    CHOOSE m \in 0..(i - 1) :
        /\ \A j \in (i - m)..(i - 1) : FlagWord(args[j])
        /\ m = i - 1 \/ ~FlagWord(args[i - m - 1])

\* in such a row the words are flag and path by turns, so a position is right
\* after a flag exactly when the row before it is of odd length
PathPositions(args) == {i \in DOMAIN args : FlagWordsBefore(args, i) % 2 = 1}
FlagPositions(args) == {i \in DOMAIN args \ PathPositions(args) : FlagWord(args[i])}
OtherPositions(args) == {i \in DOMAIN args \ PathPositions(args) : ~FlagWord(args[i])}

\* the arguments at these positions, in their original order
Pick(args, positions) ==
    [k \in 1..Cardinality(positions) |->
        args[CHOOSE i \in positions : Cardinality({j \in positions : j <= i}) = k]]

\* the declaration line of the k-th requirement
DeclarationOf(k) ==
    reqfiles[requirements[k].comes_from.path][requirements[k].comes_from.line].val

\* C15: the arguments of every download are the subcommand, the
\* no-dependency option and the download-to-scratch-directory option, then
\* every argument of the caller after the subcommand that is neither a
\* -r/--requirement flag nor the path after one, in the original order, then
\* the declaration of the requirement; no -r or --requirement is among them
C15_DownloadArgs ==
    \A j \in CallsOf("download") :
        /\ j \in Reqs
        /\ pipCalls[j].args =
              <<"install", "--no-deps", "--download", TempDir>>
                 \o Pick(Options, OtherPositions(Options))
                 \o <<DeclarationOf(j)>>
        /\ \A i \in DOMAIN pipCalls[j].args : ~FlagWord(pipCalls[j].args[i])

\* a download for a command line with an option before the requirements
\* file and another one after it
C15_Witness ==
    /\ CallsOf("download") # {}
    /\ FlagPositions(Options) # {}
    /\ \E i, j \in OtherPositions(Options), p \in PathPositions(Options) :
          i < p /\ p < j /\ Options[i] # Options[j]

(* ------------------------- one verdict per batch ----------------------- *)
\* a requirement of the batch is still to be downloaded
StillToDownload == Cardinality(CallsOf("download")) < Len(requirements) \/ ~FetchComplete

\* the lines main printed about the hashes
HashReport == {j \in DOMAIN report : report[j].t # "usage"}

\* C16: the hashes are compared at most once in a run, and while a
\* requirement of the batch is still to be downloaded nothing has been
\* compared, nothing printed about the hashes and nothing installed; every
\* install call comes after every download call; a run that downloaded the
\* whole batch has, when it ends, compared exactly once and has either
\* refused, with no install call, or gone on to install without a report
C16_VerdictOnceAfterDownloads ==
    /\ verified <= 1
    /\ StillToDownload =>
          /\ verified = 0
          /\ mismatches = <<>> /\ expected_hashes = EmptyMap /\ missing_hashes = <<>>
          /\ HashReport = {}
          /\ ~InstallInvoked
    /\ \A i \in CallsOf("download"), j \in CallsOf("install") : i < j
    /\ (InstallInvoked \/ HashReport # {}) => verified = 1
    /\ (Ended /\ BatchRead /\ ~StillToDownload) =>
          /\ verified = 1
          /\ (HashReport # {}) = (result = Return(SOMETHING_WENT_WRONG) /\ ~InstallInvoked)

\* a batch of two requirements, compared once after its two downloads, at
\* its first install call
C16_Witness ==
    /\ Len(requirements) = 2
    /\ verified = 1
    /\ Cardinality(CallsOf("download")) = 2
    /\ pc = "install"
    /\ InstallInvoked

(* ------------------------- logger registrations ------------------------ *)
\* the calls run_pip made: downloads and installs
RunPipCalls == CallsOf("download") \cup CallsOf("install")

\* C17: every delegate invocation of a run after the first begins with no
\* logger registration left by the one before, also when that one ended
\* with a non-zero status, and none is left when run_pip has returned or
\* raised
C17_RegistrationsCleared ==
    /\ \A j \in RunPipCalls : pipCalls[j].consumers_before = 0
    /\ RunPipCalls # {} => consumers = 0

\* a run whose third delegate invocation returned a non-zero status
C17_Witness ==
    /\ Cardinality(RunPipCalls) >= 3
    /\ pipCalls[Len(pipCalls)].status # 0
    /\ pipCalls[Len(pipCalls)].consumers_before = 0
    /\ consumers = 0

(* --------------------- a download that adds no file -------------------- *)
\* the downloads that returned success and added no file to the directory
EmptyDownloads ==
    {j \in CallsOf("download") : pipCalls[j].status = 0 /\ pipCalls[j].added = 0}

\* C18: a download that returns success but adds no new file to the scratch
\* directory is the last thing the run does: it ends with an error, no hash
\* was compared, nothing was reported, the install operation was not
\* invoked and the scratch directory is removed
C18_EmptyDownloadEndsRun ==
    \A j \in EmptyDownloads :
        /\ j = Len(pipCalls)
        /\ Ended
        /\ result.kind = "raise"
        /\ verified = 0
        /\ HashReport = {}
        /\ ~InstallInvoked /\ installed = {}
        /\ temp_path = "removed"

\* the same declaration twice in a batch: the second download finds its
\* archive already there
C18_Witness ==
    /\ EmptyDownloads # {}
    /\ Len(requirements) = 2
    /\ DeclarationOf(1) = DeclarationOf(2)
    /\ pipCalls[1].added = 1
    /\ result = Raise("KeyError")

(* ------------------------------ returning 0 ---------------------------- *)
\* the install calls made for the archive
InstallCallsOf(filename) == {j \in CallsOf("install") : pipCalls[j].archive = filename}

\* C19: main with the install subcommand returns 0 only if the install
\* delegate was invoked for every archive of the scratch directory and each
\* of these invocations returned 0; it does not return 0 after refusing on
\* the hashes or after any delegate call returned a non-zero status
C19_ZeroOnlyAfterAllInstalled ==
    (InstallCommand /\ result = Return(ITS_FINE_ITS_FINE)) =>
        /\ \A f \in Downloaded :
              /\ InstallCallsOf(f) # {}
              /\ \A j \in InstallCallsOf(f) : pipCalls[j].status = 0
        /\ installed = Downloaded
        /\ AllCallsSucceeded
        /\ verified = 1 /\ mismatches = <<>> /\ missing_hashes = <<>>
        /\ HashReport = {}

\* a run that returned 0 after installing the two archives of its batch
C19_Witness ==
    /\ InstallCommand
    /\ result = Return(ITS_FINE_ITS_FINE)
    /\ Cardinality(Downloaded) = 2
    /\ Cardinality(CallsOf("install")) = 2

(* --------------------------- requirement_args -------------------------- *)
\* the longest argument list requirement_args is tried on
MaxArgList == 4

InitArgs ==
    /\ MainIdle
    /\ given \in [argv : SeqsUpTo(ArgTokens, MaxArgList),
                  want_paths : BOOLEAN, want_other : BOOLEAN]
    /\ called = FALSE
    /\ returned = <<>>

\* list(requirement_args(argv, want_paths, want_other))
RequirementArgs ==
    /\ ~called
    /\ returned' = requirement_args(given.argv, given.want_paths, given.want_other)
    /\ called' = TRUE
    /\ UNCHANGED given
    /\ UNCHANGED mainVars

NextArgs == RequirementArgs

SpecArgs == InitArgs /\ [][NextArgs]_vars

\* the positions the caller asked for
Wanted ==
    (IF given.want_paths THEN PathPositions(given.argv) ELSE {})
        \cup (IF given.want_other THEN OtherPositions(given.argv) ELSE {})

\* C20: every position of the argument list is exactly one of flag, path or
\* other: it is a path when the position before it is a flag, whatever the
\* argument is; otherwise it is a flag when the argument is -r or
\* --requirement, and other when it is not. requirement_args yields the
\* arguments at the path positions with want_paths and those at the other
\* positions with want_other, in the original order, and never a flag
C20_ClassifiesPositions ==
    called =>
        LET args == given.argv
            P == PathPositions(args)
            F == FlagPositions(args)
            O == OtherPositions(args)
        IN /\ P \cup F \cup O = DOMAIN args
           /\ P \cap F = {} /\ P \cap O = {} /\ F \cap O = {}
           /\ \A i \in DOMAIN args :
                 /\ i \in P <=> (i > 1 /\ (i - 1) \in F)
                 /\ i \in F <=> (i \notin P /\ args[i] \in {"-r", "--requirement"})
                 /\ i \in O <=> (i \notin P /\ args[i] \notin {"-r", "--requirement"})
           /\ returned = Pick(args, Wanted)
           /\ Len(returned) = Cardinality(Wanted)

\* paths asked of a list with a path spelled as a flag, an argument before
\* it and a flag at the end
C20_Witness ==
    /\ called
    /\ given.want_paths /\ ~given.want_other
    /\ given.argv = <<"-q", "-r", "--requirement", "-r">>
    /\ returned = <<"--requirement">>

====
